---- MODULE Spec2Model ----
(***************************************************************************)
(* Model of the mitmproxy addon LimitTransfer                              *)
(* (crates/icp-cli/tests/assets/limit_transfer.py).                        *)
(*                                                                         *)
(* The addon runs on one asyncio event loop.  request() is a coroutine     *)
(* whose only suspension point is `await event.wait()`; everything before  *)
(* it and everything after it runs without yielding.  response() is a      *)
(* plain function.  Hence three atomic steps: request (from entry to the   *)
(* await or to a return), request_resume (from the wake-up to the return)  *)
(* and response.  Event.set() hands the waiter's wake-up to the loop with  *)
(* call_soon, and the loop runs such callbacks in the order they were      *)
(* registered: `ready` is that queue.  Arrivals and completions are        *)
(* network events and interleave freely with the wake-ups.                 *)
(*                                                                         *)
(* Requests are numbered in the order in which their request() call        *)
(* starts, so r < q means that r arrived before q.                         *)
(***************************************************************************)
EXTENDS Integers, Sequences, FiniteSets, TLC

NumRequests == 5
MaxLimit == 3
\* how many response() calls that break the caller's contract a run may hold
MaxUnexpected == 2

Requests == 1..NumRequests
\* int(os.environ.get("LIMIT_REQUESTS", 2)) accepts any integer, negative too
Limits == {-1} \cup (0..MaxLimit)

VARIABLES
  requests_allowed,    \* self.requests_allowed
  requests_completed,  \* self.requests_completed
  in_flight,           \* self.in_flight
  waiters,             \* self.waiters: events, named by the request that owns them
  ready,               \* events that are set and whose waiter has not resumed yet
  pc,                  \* where each flow's request() call stands
  stalled,             \* history: the requests that were appended to waiters
  sequential,          \* history: no request() call started while another
                       \* request was let through and not yet completed
  unexpected           \* history: response() calls for a flow that was not
                       \* let through or was already completed

vars == <<requests_allowed, requests_completed, in_flight, waiters, ready, pc,
          stalled, sequential, unexpected>>

Killed == {"killed_limit", "killed_exceed", "killed_after_wait"}
Admitted == {"allowed", "completed"}
PcValues == {"new", "stalling", "allowed", "completed"} \cup Killed

SeqToSet(s) == {s[i] : i \in 1..Len(s)}

TypeOK ==
  /\ requests_allowed \in Limits
  /\ requests_completed \in 0..(NumRequests + MaxUnexpected)
  /\ in_flight \in BOOLEAN
  /\ waiters \in Seq(Requests)
  /\ ready \in Seq(Requests)
  /\ pc \in [Requests -> PcValues]
  /\ stalled \subseteq Requests
  /\ sequential \in BOOLEAN
  /\ unexpected \in 0..MaxUnexpected

Init ==
  /\ requests_allowed \in Limits
  /\ requests_completed = 0
  /\ in_flight = FALSE
  /\ waiters = <<>>
  /\ ready = <<>>
  /\ pc = [r \in Requests |-> "new"]
  /\ stalled = {}
  /\ sequential = TRUE
  /\ unexpected = 0

\* line 25: if self.requests_completed >= self.requests_allowed
limit_reached_strict == requests_completed > requests_allowed
limit_reached == requests_completed >= requests_allowed

\* line 31: if self.in_flight
another_in_flight_ignored == FALSE
another_in_flight == in_flight

\* line 33: if self.requests_completed + len(self.waiters) + 1 >= self.requests_allowed
would_exceed_strict == requests_completed + Len(waiters) + 1 > requests_allowed
would_exceed_no_queue == requests_completed + 1 >= requests_allowed
would_exceed_eager == requests_completed + Len(waiters) + 2 >= requests_allowed
would_exceed == requests_completed + Len(waiters) + 1 >= requests_allowed

\* lines 34-39: self.waiters once request() has taken the in-flight branch;
\* the return at line 36 keeps a killed request from reaching the append
waiters_after_stall_no_return(r, kill) == Append(waiters, r)
waiters_after_stall(r, kill) == IF kill THEN waiters ELSE Append(waiters, r)

\* line 44: the check after waking
limit_reached_after_wait_skipped == FALSE
limit_reached_after_wait == requests_completed >= requests_allowed

\* line 54: self.in_flight = False
in_flight_after_response_kept == in_flight
in_flight_after_response == FALSE

\* line 58: if self.waiters and self.requests_completed < self.requests_allowed,
\* evaluated after line 53 has incremented the counter to c
wake_next_off_by_one(c) == waiters # <<>> /\ c + 1 < requests_allowed
wake_next(c) == waiters # <<>> /\ c < requests_allowed

\* line 59: self.waiters.pop(0), as <<popped element, remaining list>>
pop_last(w) == <<w[Len(w)], SubSeq(w, 1, Len(w) - 1)>>
pop_0(w) == <<Head(w), Tail(w)>>

\* request(), from its entry to the await or to a return (lines 23-41, 49-50)
request(r) ==
  /\ pc[r] = "new"
  /\ \A q \in Requests : q < r => pc[q] # "new"
  /\ IF limit_reached
       THEN /\ pc' = [pc EXCEPT ![r] = "killed_limit"]
            /\ UNCHANGED <<in_flight, waiters, stalled>>
       ELSE IF another_in_flight
         THEN IF would_exceed
                THEN /\ pc' = [pc EXCEPT ![r] = "killed_exceed"]
                     /\ waiters' = waiters_after_stall(r, TRUE)
                     /\ UNCHANGED <<in_flight, stalled>>
                ELSE /\ waiters' = waiters_after_stall(r, FALSE)
                     /\ pc' = [pc EXCEPT ![r] = "stalling"]
                     /\ stalled' = stalled \cup {r}
                     /\ UNCHANGED in_flight
         ELSE /\ in_flight' = TRUE
              /\ pc' = [pc EXCEPT ![r] = "allowed"]
              /\ UNCHANGED <<waiters, stalled>>
  /\ sequential' = (sequential /\ \A q \in Requests : pc[q] # "allowed")
  /\ UNCHANGED <<requests_allowed, requests_completed, ready, unexpected>>

\* request(), from the wake-up after event.wait() to its return (lines 41-50)
request_resume(r) ==
  /\ ready # <<>>
  /\ r = Head(ready)
  /\ pc[r] = "stalling"
  /\ ready' = Tail(ready)
  /\ IF limit_reached_after_wait
       THEN /\ pc' = [pc EXCEPT ![r] = "killed_after_wait"]
            /\ UNCHANGED in_flight
       ELSE /\ in_flight' = TRUE
            /\ pc' = [pc EXCEPT ![r] = "allowed"]
  /\ UNCHANGED <<requests_allowed, requests_completed, waiters, stalled,
                 sequential, unexpected>>

\* the body of response() (lines 53-60); it never looks at its flow
response_body ==
  /\ requests_completed' = requests_completed + 1
  /\ in_flight' = in_flight_after_response
  /\ IF wake_next(requests_completed + 1)
       THEN /\ waiters' = pop_0(waiters)[2]
            /\ ready' = Append(ready, pop_0(waiters)[1])
       ELSE UNCHANGED <<waiters, ready>>

\* response() for a flow whose request was let through (lines 52-60)
response(r) ==
  /\ pc[r] = "allowed"
  /\ response_body
  /\ pc' = [pc EXCEPT ![r] = "completed"]
  /\ UNCHANGED <<requests_allowed, stalled, sequential, unexpected>>

\* response() for a flow that was killed or has already completed
\* (lines 52-60): the same code runs, nothing in it tells the flows apart
response_unexpected(r) ==
  /\ pc[r] \in Killed \cup {"completed"}
  /\ unexpected < MaxUnexpected
  /\ response_body
  /\ unexpected' = unexpected + 1
  /\ UNCHANGED <<requests_allowed, pc, stalled, sequential>>

Next ==
  \/ \E r \in Requests : request(r)
  \/ \E r \in Requests : request_resume(r)
  \/ \E r \in Requests : response(r)

Spec == Init /\ [][Next]_vars

\* The caller may also break its contract and report completions of flows
\* that are not in flight.
MisuseNext ==
  \/ \E r \in Requests : request(r)
  \/ \E r \in Requests : request_resume(r)
  \/ \E r \in Requests : response(r)
  \/ \E r \in Requests : response_unexpected(r)

MisuseSpec == Init /\ [][MisuseNext]_vars

\* The wake-up of a signaled waiter is the next thing the loop runs: no
\* request() or response() call comes between waiter.set() and the resumption.
HandoffNext ==
  \/ \E r \in Requests : ready = <<>> /\ request(r)
  \/ \E r \in Requests : request_resume(r)
  \/ \E r \in Requests : ready = <<>> /\ response(r)

HandoffSpec == Init /\ [][HandoffNext]_vars

\* The loop runs every callback in its ready queue, and every flow that was
\* let through gets its response hook.
LiveSpec ==
  /\ Spec
  /\ \A r \in Requests : WF_vars(request_resume(r))
  /\ \A r \in Requests : WF_vars(response(r))

----
\* Derived quantities
NumAdmitted == Cardinality({r \in Requests : pc[r] \in Admitted})
Outstanding == {r \in Requests : pc[r] = "allowed"}
Signaled(r) == r \in stalled /\ r \notin SeqToSet(waiters)
Resumed(r) == r \in stalled /\ pc[r] # "stalling"
Arrived == {r \in Requests : pc[r] # "new"}
Quiescent == \A r \in Requests : pc[r] \notin {"stalling", "allowed"}

----
\* C1: with a limit L >= 0, the number of requests that ever reach the
\* `in_flight = True` step of request() never exceeds L.
C1_AdmittedNeverExceedsLimit ==
  requests_allowed >= 0 => NumAdmitted <= requests_allowed

\* C2: in every reachable state at most one request has been let through
\* and has not had its response yet.
C2_AtMostOneInFlight == Cardinality(Outstanding) <= 1

\* C3: when response() is called exactly once per request that was let
\* through and never for a killed one, requests_completed never exceeds
\* requests_allowed.
C3_CompletedWithinLimit ==
  requests_allowed >= 0 => requests_completed <= requests_allowed

\* C4: with every request that was let through getting its response and every
\* signaled waiter being resumed, a request that was put in waiters eventually
\* leaves the await with a verdict, and a verdict once given never changes
\* (nothing is both let through and killed).
C4_EventuallyOneVerdict ==
  /\ \A r \in Requests : (pc[r] = "stalling") ~> (pc[r] \in Admitted \cup Killed)
  /\ [][\A r \in Requests :
          /\ pc[r] \in Admitted => pc'[r] \in Admitted
          /\ pc[r] \in Killed => pc'[r] = pc[r]]_vars

C4_Witness ==
  \E r \in stalled : pc[r] = "completed" /\ \E q \in stalled : q > r /\ pc[q] \in Admitted

\* C5: waiters leave the queue and resume in the order in which they entered
\* it: of two requests that stalled, the later is signaled only after the
\* earlier was signaled and gets its verdict after waking only after the
\* earlier got its own.
C5_FifoWake ==
  /\ \A a, b \in stalled :
       a < b => /\ Signaled(b) => Signaled(a)
                /\ Resumed(b) => Resumed(a)
  /\ \A i, j \in 1..Len(waiters) : i < j => waiters[i] < waiters[j]
  /\ \A i, j \in 1..Len(ready) : i < j => ready[i] < ready[j]

C5_Witness ==
  \E a, b \in stalled : a < b /\ Resumed(a) /\ Signaled(b) /\ ~Resumed(b)

\* C6: in_flight is True exactly when one request that was let through is
\* still waiting for its response.
C6_InFlightAccurate == in_flight <=> (Cardinality(Outstanding) = 1)

\* C7: for every limit >= 0 the queue of waiters is never longer than the
\* limit.
C7_WaitersWithinLimit ==
  requests_allowed >= 0 => Len(waiters) <= requests_allowed

C7_Witness == Len(waiters) >= 2 /\ Len(waiters) = requests_allowed - 1

\* C8: a request arriving while the limit is not reached and another request
\* is in flight is appended to waiters and suspended exactly when
\* requests_completed + len(waiters) + 1 < requests_allowed, and is otherwise
\* killed at once without ever entering waiters; with a limit of 2 and three
\* arrivals before any completion the first is let through, the second is
\* queued and the third is killed without queueing.
C8_PreemptiveKill ==
  /\ [][\A r \in Requests :
          (/\ pc[r] = "new" /\ pc'[r] # "new"
           /\ requests_completed < requests_allowed /\ in_flight)
          => IF requests_completed + Len(waiters) + 1 < requests_allowed
               THEN /\ pc'[r] = "stalling"
                    /\ waiters' = Append(waiters, r)
               ELSE /\ pc'[r] = "killed_exceed"
                    /\ waiters' = waiters]_vars
  /\ [](\A r \in Requests : pc[r] = "killed_exceed" => r \notin stalled)
  /\ []((requests_allowed = 2 /\ requests_completed = 0 /\ pc[3] # "new")
         => /\ pc[1] = "allowed" /\ pc[2] = "stalling" /\ pc[3] = "killed_exceed"
            /\ waiters = <<2>> /\ 3 \notin stalled)

C8_Witness ==
  /\ requests_allowed = 2 /\ requests_completed = 0
  /\ pc[2] = "stalling" /\ pc[3] = "killed_exceed"

\* C9: a waiter that resumes when requests_completed >= requests_allowed is
\* killed: the resumption leaves in_flight, requests_completed and waiters as
\* they were, and the request is never let through afterwards.
C9_KillOnResume ==
  /\ [][\A r \in Requests :
          (/\ pc[r] = "stalling" /\ pc'[r] # "stalling"
           /\ requests_completed >= requests_allowed)
          => /\ pc'[r] = "killed_after_wait"
             /\ UNCHANGED <<in_flight, requests_completed, waiters>>]_vars
  /\ [][\A r \in Requests :
          pc[r] = "killed_after_wait" => pc'[r] = "killed_after_wait"]_vars

C9_Witness == \E r \in Requests : pc[r] = "killed_after_wait"

\* C10: with a limit of 0 every arrival is killed by the first check: waiters
\* stays empty, in_flight stays False, requests_completed stays 0 and no
\* request is let through or suspended.
C10_ZeroLimit ==
  requests_allowed = 0 =>
    /\ waiters = <<>> /\ ready = <<>> /\ stalled = {}
    /\ ~in_flight /\ requests_completed = 0
    /\ \A r \in Requests : pc[r] \in {"new", "killed_limit"}

C10_Witness ==
  requests_allowed = 0 /\ \A r \in Requests : pc[r] = "killed_limit"

\* C11: while arrivals are strictly sequential (no request arrives before the
\* response of the one before it was processed) exactly the first
\* requests_allowed arrivals are let through, none is ever queued, every later
\* arrival is killed by the first check, and waiters stays empty.
C11_SequentialArrivals ==
  sequential =>
    /\ waiters = <<>> /\ ready = <<>> /\ stalled = {}
    /\ \A r \in Arrived :
         /\ r <= requests_allowed => pc[r] \in Admitted
         /\ r > requests_allowed => pc[r] = "killed_limit"

C11_Witness ==
  /\ sequential /\ requests_allowed = 2
  /\ pc[1] = "completed" /\ pc[2] = "completed" /\ pc[3] = "killed_limit"

\* C12: a response() call for a flow that was never let through, or a second
\* one for the same flow, leaves requests_completed and the rest of the gate
\* state as they were.
C12_BadCompletionRejected ==
  [][(requests_allowed >= 0 /\ unexpected' # unexpected)
       => UNCHANGED <<requests_completed, in_flight, waiters, ready>>]_vars

\* C13: no state with a negative requests_allowed is reachable.
C13_NoNegativeLimit == requests_allowed >= 0

\* C14: every response() call adds exactly 1 to requests_completed, sets
\* in_flight to False, and removes and signals the head of waiters when
\* waiters is non-empty and the new count is below the limit; otherwise it
\* leaves waiters alone.  The waiters that remain keep their order.
C14_ResponseEffect ==
  [][requests_completed' # requests_completed
       => /\ requests_completed' = requests_completed + 1
          /\ in_flight' = FALSE
          /\ IF waiters # <<>> /\ requests_completed + 1 < requests_allowed
               THEN /\ waiters' = Tail(waiters)
                    /\ ready' = Append(ready, Head(waiters))
               ELSE UNCHANGED <<waiters, ready>>]_vars

C14_Witness ==
  /\ waiters # <<>> /\ ready # <<>>
  /\ \A i \in 1..Len(waiters) : ready[Len(ready)] < waiters[i]

\* C15: a step that kills a request leaves requests_completed, in_flight and
\* waiters as they were, and a killed request stays killed: it is never let
\* through, never in waiters or woken, and never counted in
\* requests_completed.
C15_KillIsFinal ==
  /\ [][\A r \in Requests :
          /\ (pc[r] \notin Killed /\ pc'[r] \in Killed)
               => UNCHANGED <<requests_completed, in_flight, waiters>>
          /\ pc[r] \in Killed => pc'[r] = pc[r]]_vars
  /\ [](\A r \in Requests :
          pc[r] \in Killed => r \notin SeqToSet(waiters) \cup SeqToSet(ready))
  /\ [](requests_completed = Cardinality({r \in Requests : pc[r] = "completed"}))

C15_Witness ==
  /\ \E r \in Requests : pc[r] = "killed_exceed"
  /\ \E r \in Requests : pc[r] = "killed_after_wait"
  /\ \E r \in Requests : pc[r] = "killed_limit"

\* C16: whenever a request is killed, requests_completed + len(waiters) + the
\* number of requests let through and not completed is at least
\* requests_allowed; so once at least requests_allowed requests have arrived
\* and all of them are settled, at least requests_allowed were let through.
C16_NoKillWhileCapacity ==
  /\ [][\A r \in Requests :
          (pc[r] \notin Killed /\ pc'[r] \in Killed)
            => requests_completed + Len(waiters) + Cardinality(Outstanding)
                 >= requests_allowed]_vars
  /\ []((Quiescent /\ Cardinality(Arrived) >= requests_allowed)
          => NumAdmitted >= requests_allowed)

C16_Witness ==
  /\ Quiescent /\ requests_allowed = MaxLimit
  /\ NumAdmitted = requests_allowed
  /\ \E r \in Requests : pc[r] = "killed_exceed"

\* C17: whenever waiters is non-empty, requests_completed + len(waiters) + 1
\* <= requests_allowed; so waiters is empty once the limit is reached and
\* response() always wakes the head of a non-empty queue.
C17_QueuedWithinCapacity ==
  /\ [](waiters # <<>>
          => requests_completed + Len(waiters) + 1 <= requests_allowed)
  /\ [](requests_completed >= requests_allowed => waiters = <<>>)
  /\ [][(requests_completed' # requests_completed /\ waiters # <<>>)
          => /\ waiters' = Tail(waiters)
             /\ ready' = Append(ready, Head(waiters))]_vars

C17_Witness ==
  /\ Len(waiters) = 2
  /\ requests_completed + Len(waiters) + 1 = requests_allowed

\* C18: when nothing runs between waiter.set() and the waiter's resumption,
\* every resumed waiter finds the limit not reached and is let through: no
\* request is killed after waiting and at most one request is in flight.
C18_UninterruptedHandoff ==
  /\ \A r \in Requests : pc[r] # "killed_after_wait"
  /\ \A r \in stalled : pc[r] \in {"stalling"} \cup Admitted
  /\ ready # <<>> => requests_completed < requests_allowed
  /\ Cardinality(Outstanding) <= 1

C18_Witness ==
  \E r \in stalled : pc[r] = "allowed" /\ \E q \in stalled : q < r /\ pc[q] = "completed"

\* C19: whenever in_flight is True some request that was let through has not
\* had its response; so a request enters waiters only while such a request
\* exists.
C19_InFlightHasOwner ==
  /\ [](in_flight => Outstanding # {})
  /\ [][\A r \in Requests :
          (pc[r] = "new" /\ pc'[r] = "stalling") => Outstanding # {}]_vars

C19_Witness ==
  /\ in_flight /\ waiters # <<>>
  /\ \E r \in Outstanding : r \in stalled

====
